---- MODULE Spec2Model ----
(***************************************************************************)
(* A model of sw::redis::Connection and Connection::Connector              *)
(* (src/sw/redis++/connection.cpp): the transport handshake, the socket    *)
(* configuration, the setup commands (AUTH, SELECT), send/recv over the     *)
(* hiredis context, and reconnect() by build-then-swap.                    *)
(*                                                                         *)
(* The hiredis context (redisContext) is modelled by what the calls made   *)
(* in connection.cpp do to it: an error code, the output buffer filled by  *)
(* redisAppendCommandArgv, the replies the server has produced and that    *)
(* are still on the wire, and the replies the reader has already buffered. *)
(***************************************************************************)
EXTENDS Integers, Sequences, FiniteSets, TLC

VARIABLES
    ndebug,      \* TRUE iff the build defines NDEBUG (assert compiles to nothing)
    opts,        \* the ConnectionOptions the caller constructs the Connection with
    handles,     \* every redisContext a handshake has produced, by handle id
    conn,        \* the caller's Connection object (NoConn when none exists)
    tmp,         \* the local `connection` of reconnect() (NoConn outside of it)
    pc,          \* position of the caller: "idle", inside reconnect(), or "aborted"
    clock,       \* std::chrono::steady_clock
    nhandshake,  \* number of handshake calls (redisConnect*) made so far
    saved,       \* the caller's Connection and its context as reconnect() found them
    delivered,   \* recv() calls of the caller on its current handle that got a reply
    last,        \* what the last completed call did: operation, error raised, reply
    duration,    \* the argument of a call of _to_timeval made on its own
    timeval      \* what that call returned (NoTimeval before the call)

vars == <<ndebug, opts, handles, conn, tmp, pc, clock, nhandshake, saved, delivered, last,
          duration, timeval>>

----------------------------------------------------------------------------
(* Bounds of the model *)

\* handshakes (constructions and reconnects) in one behaviour
MaxHandshakes == 2
\* commands the caller sends on one handle
MaxSends == 2

(* Unit conversions of std::chrono (nanosecond steady_clock::duration) *)
NanosPerSec == 1000000000
NanosPerMicro == 1000
MicrosPerSec == 1000000

----------------------------------------------------------------------------
(* ConnectionOptions *)

Durations == {0, 1500002500}
\* (negative: no timeout; 500ns: positive and below one microsecond; 2s)
SocketDurations == {0 - 1, 500, 2000000000}
Passwords == {"", "secret"}
DbIndexes == {0, 5}

AllOptions ==
    [type : {"TCP", "UNIX"},
     connect_timeout : Durations,
     socket_timeout : SocketDurations,
     keep_alive : BOOLEAN,
     password : Passwords,
     db : DbIndexes]

\* The options the caller constructs with: every combination of socket
\* timeout (none, 2s), keep-alive, password and db over a blocking TCP
\* handshake; every transport kind and connect timeout with the other options
\* unset; and every socket timeout with the other options unset.
OptionsSet ==
    {o \in AllOptions :
        \/ o.type = "TCP" /\ o.connect_timeout <= 0 /\ o.socket_timeout # 500
        \/ o.socket_timeout <= 0 /\ ~o.keep_alive /\ o.password = "" /\ o.db = 0
        \/ o.type = "TCP" /\ o.connect_timeout <= 0 /\ ~o.keep_alive
              /\ o.password = "" /\ o.db = 0}

----------------------------------------------------------------------------
(* Values *)

NullCtx == 0
NoOptions ==
    [type |-> "none", connect_timeout |-> 0, socket_timeout |-> 0,
     keep_alive |-> FALSE, password |-> "", db |-> 0]
NoConn == [ctx |-> NullCtx, last_active |-> 0, opts |-> NoOptions, exists |-> FALSE]
NoReply == [seq |-> 0, cmd |-> <<>>, kind |-> "none"]
NoTimeval == [tv_sec |-> 0 - 1, tv_usec |-> 0 - 1]

\* what a server answers to one command: the status OK, an error reply, or
\* any other well-formed reply (another status, an integer, a string, ...)
ReplyKinds == {"status_ok", "error", "other"}

\* what it answers to a command of the caller; to the Connection every reply
\* that is not an error is the same
CallerReplyKinds == {"error", "other"}

\* the commands of the caller (pre-built argument vectors)
CallerCmds == {<<"GET", "k">>}

\* `auto v = e;` followed by the statements F that use v
Bind(v, F(_)) == F(v)

\* integer division truncating toward zero, as duration_cast does
TruncDiv(a, b) == IF a >= 0 THEN a \div b ELSE 0 - ((0 - a) \div b)

\* _to_timeval that converts the whole duration, not the remainder, to microseconds
_to_timeval_whole_usec(dur) ==
    [tv_sec |-> TruncDiv(dur, NanosPerSec), tv_usec |-> TruncDiv(dur, NanosPerMicro)]

_to_timeval(dur) ==
    LET sec == TruncDiv(dur, NanosPerSec)
        msec == TruncDiv(dur - sec * NanosPerSec, NanosPerMicro)
    IN  [tv_sec |-> sec, tv_usec |-> msec]

----------------------------------------------------------------------------
(* Errors.  A call either returns (NoThrow), raises an exception            *)
(* ([class, msg]) or fails an assertion, which terminates the process.      *)

NoThrow == [class |-> "none", msg |-> ""]
Abort(what) == [class |-> "abort", msg |-> what]
Raised(t) == t.class \notin {"none", "abort"}

\* throw Error(msg), as written in connection.cpp
Error(msg) == [class |-> "Error", msg |-> msg]

\* the error taxonomy of the library's error header, by the failing step
ErrorClass(msg) ==
    CASE msg = "Failed to set socket timeout" -> "ConfigurationError"
      [] msg = "Failed to enable keep alive option" -> "ConfigurationError"
      [] msg = "Failed to connect to Redis" -> "ConnectionError"
      [] msg = "Failed to send command" -> "ProtocolError"
      [] msg = "Failed to get reply" -> "ProtocolError"
      [] OTHER -> "Error"

\* throw_error(redisContext&, msg)
throw_error(ctx, msg) == [class |-> ErrorClass(msg), msg |-> msg]

\* throw_error(redisReply&): the server's error reply raised as ReplyError
throw_reply_error(reply) == [class |-> "ReplyError", msg |-> "server error reply"]

----------------------------------------------------------------------------
(* The hiredis context *)

NullContext ==
    [open |-> FALSE, err |-> "REDIS_OK", errstr |-> "", obuf |-> <<>>, stream |-> <<>>,
     rbuf |-> <<>>, sent |-> <<>>, nrecv |-> 0, frees |-> 0,
     timeout |-> NoTimeval, keep_alive |-> FALSE, via |-> "nullptr",
     deadline |-> NoTimeval]

\* what the network does to a handshake call: no context can be allocated,
\* the peer refuses, the peer accepts, or the peer accepts after a time longer
\* than any deadline
HandshakeOutcomes == {"null", "refused", "connected", "slow"}

\* the error a handshake leaves in the context it returns: a slow handshake
\* fails only when the call was given a deadline (tv)
HandshakeErrstr(tv, hs) ==
    CASE hs = "refused" -> "Connection refused"
      [] hs = "slow" /\ tv # NoTimeval -> "Connection timed out"
      [] OTHER -> ""

NewContext(via, tv, hs) ==
    IF hs = "null" THEN NullContext
    ELSE [NullContext EXCEPT !.open = TRUE, !.via = via, !.deadline = tv,
              !.err = IF HandshakeErrstr(tv, hs) # "" THEN "REDIS_ERR_IO"
                      ELSE "REDIS_OK",
              !.errstr = HandshakeErrstr(tv, hs)]

redisConnect(hs) == NewContext("redisConnect", NoTimeval, hs)
redisConnectWithTimeout(tv, hs) == NewContext("redisConnectWithTimeout", tv, hs)
redisConnectUnix(hs) == NewContext("redisConnectUnix", NoTimeval, hs)
redisConnectUnixWithTimeout(tv, hs) == NewContext("redisConnectUnixWithTimeout", tv, hs)

\* redisSetTimeout: setsockopt on the context's socket; on failure the
\* context's error is set and REDIS_ERR returned
redisSetTimeout(ctx, tv, ok) ==
    IF ok THEN [rc |-> "REDIS_OK", ctx |-> [ctx EXCEPT !.timeout = tv]]
    ELSE [rc |-> "REDIS_ERR",
          ctx |-> [ctx EXCEPT !.err = "REDIS_ERR_IO",
                              !.errstr = "setsockopt(SO_RCVTIMEO)"]]

\* SO_RCVTIMEO / SO_SNDTIMEO: a timeval of zero means the socket never times out
Armed(tv) == tv.tv_sec > 0 \/ tv.tv_usec > 0

\* a read on the context's socket gives up when nothing arrives in time
TimeoutArmed(ctx) == Armed(ctx.timeout)

redisEnableKeepAlive(ctx, ok) ==
    IF ok THEN [rc |-> "REDIS_OK", ctx |-> [ctx EXCEPT !.keep_alive = TRUE]]
    ELSE [rc |-> "REDIS_ERR",
          ctx |-> [ctx EXCEPT !.err = "REDIS_ERR_OTHER",
                              !.errstr = "setsockopt(SO_KEEPALIVE)"]]

\* redisFree, the deleter of ContextUPtr: the socket is closed and the buffers
\* are gone; what remains of the context is that it was released
redisFree(ctx) == [NullContext EXCEPT !.via = "freed", !.frees = ctx.frees + 1]

\* redisAppendCommandArgv: formats the command and appends it to the output
\* buffer; it fails only when memory runs out, and never looks at ctx.err.
\* `ans` is what the server will answer to this command once it receives it.
redisAppendCommandArgv(ctx, cmd, ans, ok) ==
    IF ok
    THEN [rc |-> "REDIS_OK",
          ctx |-> [ctx EXCEPT !.obuf = Append(@, [cmd |-> cmd, ans |-> ans]),
                              !.sent = Append(@, cmd)]]
    ELSE [rc |-> "REDIS_ERR",
          ctx |-> [ctx EXCEPT !.err = "REDIS_ERR_OOM", !.errstr = "Out of memory"]]

\* the replies of the server to the commands of an output buffer that follows
\* `n` commands already written
Replies(obuf, n) ==
    [i \in 1..Len(obuf) |-> [seq |-> n + i, cmd |-> obuf[i].cmd, kind |-> obuf[i].ans]]

\* what a read on the socket can do: bring replies in, fail (reset, closed by
\* the peer), bring in bytes that are no reply, or see nothing arrive
ReadOutcomes == {"ok", "fail", "garbage", "timeout"}

\* the errstr of a read that gave up waiting (strerror(EAGAIN))
TimedOut == "Resource temporarily unavailable"

\* The environment of one redisGetReply call: whether the write of the output
\* buffer succeeds, what the read does, and how many of the replies on the
\* wire one read brings in.
\* (a failed write ends the call before the read, and a failed read brings
\* nothing in: the later choices are fixed there, each outcome listed once)
GetReplyEnvs ==
    {e \in [wr : BOOLEAN, rd : ReadOutcomes, all : BOOLEAN] :
        /\ (~e.wr => e.rd = "ok" /\ e.all)
        /\ (e.rd # "ok" => e.all)}

\* redisGetReply:
\*   a reply already buffered by the reader is returned at once;
\*   otherwise the output buffer is written (redisBufferWrite fails when
\*   ctx.err is set or the write fails), then replies are read
\*   (redisBufferRead) until the reader holds a complete one.  When nothing
\*   arrives, the read gives up (EAGAIN) if the socket has a timeout and
\*   otherwise waits until the transport fails.
redisGetReply(ctx, env) ==
    IF ctx.rbuf # <<>>
    THEN [rc |-> "REDIS_OK", reply |-> Head(ctx.rbuf),
          ctx |-> [ctx EXCEPT !.rbuf = Tail(@), !.nrecv = @ + 1]]
    ELSE IF ctx.err # "REDIS_OK"
    THEN [rc |-> "REDIS_ERR", reply |-> NoReply, ctx |-> ctx]
    ELSE IF ctx.obuf # <<>> /\ ~env.wr
    THEN [rc |-> "REDIS_ERR", reply |-> NoReply,
          ctx |-> [ctx EXCEPT !.err = "REDIS_ERR_IO",
                              !.errstr = "Connection reset by peer"]]
    ELSE
      LET wire == ctx.stream \o Replies(ctx.obuf, Len(ctx.sent) - Len(ctx.obuf))
          written == [ctx EXCEPT !.obuf = <<>>, !.stream = wire]
          k == IF env.all THEN Len(wire) ELSE 1
      IN  IF env.rd = "timeout" /\ TimeoutArmed(ctx)
          THEN [rc |-> "REDIS_ERR", reply |-> NoReply,
                ctx |-> [written EXCEPT !.err = "REDIS_ERR_IO",
                                        !.errstr = TimedOut]]
          ELSE IF env.rd \in {"fail", "timeout"} \/ wire = <<>>
          THEN [rc |-> "REDIS_ERR", reply |-> NoReply,
                ctx |-> [written EXCEPT !.err = "REDIS_ERR_IO",
                                        !.errstr = "Connection reset by peer"]]
          ELSE IF env.rd = "garbage"
          THEN [rc |-> "REDIS_ERR", reply |-> NoReply,
                ctx |-> [written EXCEPT !.err = "REDIS_ERR_PROTOCOL",
                                        !.errstr = "Protocol error",
                                        !.stream = <<>>]]
          ELSE [rc |-> "REDIS_OK", reply |-> Head(wire),
                ctx |-> [written EXCEPT
                            !.rbuf = SubSeq(wire, 2, k),
                            !.stream = SubSeq(wire, k + 1, Len(wire)),
                            !.nrecv = @ + 1]]

----------------------------------------------------------------------------
(* Connection::Connector *)

_connect_tcp(o, hs) ==
    IF o.connect_timeout > 0
    THEN redisConnectWithTimeout(_to_timeval(o.connect_timeout), hs)
    ELSE redisConnect(hs)

\* _connect_unix that takes a connect timeout of zero for a deadline
_connect_unix_deadline_at_zero(o, hs) ==
    IF o.connect_timeout >= 0
    THEN redisConnectUnixWithTimeout(_to_timeval(o.connect_timeout), hs)
    ELSE redisConnectUnix(hs)

_connect_unix(o, hs) ==
    IF o.connect_timeout > 0
    THEN redisConnectUnixWithTimeout(_to_timeval(o.connect_timeout), hs)
    ELSE redisConnectUnix(hs)

\* _connect that tries the handshake a second time when the first gives nullptr
_connect_retry(o, hs) ==
    Bind(IF o.type = "TCP" THEN _connect_tcp(o, hs) ELSE _connect_unix(o, hs),
         LAMBDA first :
    Bind(IF first # NullContext THEN first
         ELSE IF o.type = "TCP" THEN _connect_tcp(o, hs) ELSE _connect_unix(o, hs),
         LAMBDA context :
    IF context = NullContext
    THEN [thrown |-> Error("Failed to allocate memory for connection."),
          ctx |-> NullContext, calls |-> 2]
    ELSE [thrown |-> NoThrow, ctx |-> context,
          calls |-> IF first # NullContext THEN 1 ELSE 2]))

\* Connector::_connect: one handshake; nullptr raises, any other context is
\* handed back, broken or not.  `calls` counts the handshake calls made.
_connect(o, hs) ==
    IF o.type \notin {"TCP", "UNIX"}
    THEN [thrown |-> Error("Unkonw connection type"), ctx |-> NullContext, calls |-> 0]
    ELSE Bind(IF o.type = "TCP" THEN _connect_tcp(o, hs) ELSE _connect_unix(o, hs),
              LAMBDA context :
         IF context = NullContext
         THEN [thrown |-> Error("Failed to allocate memory for connection."),
               ctx |-> NullContext, calls |-> 1]
         ELSE [thrown |-> NoThrow, ctx |-> context, calls |-> 1])

_set_socket_timeout(o, ctx, ok) ==
    IF o.socket_timeout <= 0
    THEN [thrown |-> NoThrow, ctx |-> ctx]
    ELSE Bind(redisSetTimeout(ctx, _to_timeval(o.socket_timeout), ok), LAMBDA r :
         IF r.rc # "REDIS_OK"
         THEN [thrown |-> throw_error(r.ctx, "Failed to set socket timeout"),
               ctx |-> r.ctx]
         ELSE [thrown |-> NoThrow, ctx |-> r.ctx])

_enable_keep_alive(o, ctx, ok) ==
    IF ~o.keep_alive
    THEN [thrown |-> NoThrow, ctx |-> ctx]
    ELSE Bind(redisEnableKeepAlive(ctx, ok), LAMBDA r :
         IF r.rc # "REDIS_OK"
         THEN [thrown |-> throw_error(r.ctx, "Failed to enable keep alive option"),
               ctx |-> r.ctx]
         ELSE [thrown |-> NoThrow, ctx |-> r.ctx])

\* Connector::connect.  The local ContextUPtr releases the context when a
\* configuration step raises.
Connector_connect(nd, o, env) ==
    Bind(_connect(o, env.hs), LAMBDA c :
    IF c.thrown # NoThrow THEN c
    ELSE IF ~nd /\ c.ctx = NullContext
    THEN [c EXCEPT !.thrown = Abort("assert(ctx)")]
    ELSE Bind(_set_socket_timeout(o, c.ctx, env.st), LAMBDA t :
         IF t.thrown # NoThrow
         THEN [thrown |-> t.thrown, ctx |-> redisFree(t.ctx), calls |-> c.calls]
         ELSE Bind(_enable_keep_alive(o, t.ctx, env.ka), LAMBDA k :
              IF k.thrown # NoThrow
              THEN [thrown |-> k.thrown, ctx |-> redisFree(k.ctx), calls |-> c.calls]
              ELSE [thrown |-> NoThrow, ctx |-> k.ctx, calls |-> c.calls])))

----------------------------------------------------------------------------
(* Connection.  In these operators a Connection is the record of its three  *)
(* members, with the context it owns in place of the pointer to it.         *)

\* Connection::broken(): the context's error flag
broken(c) == c.ctx.err # "REDIS_OK"

\* Connection::_context(): the raw pointer of _ctx
_context(c) == c.ctx

\* reply::is_error
is_error(reply) == reply.kind = "error"

\* reply::expect_ok_status: anything but the status OK raises
expect_ok_status(reply) ==
    IF reply.kind = "status_ok" THEN NoThrow
    ELSE [class |-> "ProtocolError", msg |-> "Expect OK status reply"]

\* send() that stamps the connection as active
send_touch(nd, c, cmd, env) ==
    Bind(redisAppendCommandArgv(_context(c), cmd, env.ans, env.ok), LAMBDA r :
    IF r.rc # "REDIS_OK"
    THEN [thrown |-> throw_error(r.ctx, "Failed to send command"),
          c |-> [c EXCEPT !.ctx = r.ctx]]
    ELSE [thrown |-> NoThrow,
          c |-> [c EXCEPT !.ctx = r.ctx, !.last_active = @ + 1]])

\* Connection::send(int argc, const char **argv, const std::size_t *argv_len)
send(nd, c, cmd, env) ==
    Bind(_context(c), LAMBDA ctx :
    IF ~nd /\ ctx = NullContext
    THEN [thrown |-> Abort("assert(ctx != nullptr)"), c |-> c]
    ELSE Bind(redisAppendCommandArgv(ctx, cmd, env.ans, env.ok), LAMBDA r :
         IF r.rc # "REDIS_OK"
         THEN [thrown |-> throw_error(r.ctx, "Failed to send command"),
               c |-> [c EXCEPT !.ctx = r.ctx]]
         ELSE IF ~nd /\ broken([c EXCEPT !.ctx = r.ctx])
         THEN [thrown |-> Abort("assert(!broken())"), c |-> [c EXCEPT !.ctx = r.ctx]]
         ELSE [thrown |-> NoThrow, c |-> [c EXCEPT !.ctx = r.ctx]]))

\* Connection::send(CmdArgs &args): the same steps on args.argv()
send_CmdArgs(nd, c, args, env) ==
    Bind(_context(c), LAMBDA ctx :
    IF ~nd /\ ctx = NullContext
    THEN [thrown |-> Abort("assert(ctx != nullptr)"), c |-> c]
    ELSE Bind(redisAppendCommandArgv(ctx, args, env.ans, env.ok), LAMBDA r :
         IF r.rc # "REDIS_OK"
         THEN [thrown |-> throw_error(r.ctx, "Failed to send command"),
               c |-> [c EXCEPT !.ctx = r.ctx]]
         ELSE IF ~nd /\ broken([c EXCEPT !.ctx = r.ctx])
         THEN [thrown |-> Abort("assert(!broken())"), c |-> [c EXCEPT !.ctx = r.ctx]]
         ELSE [thrown |-> NoThrow, c |-> [c EXCEPT !.ctx = r.ctx]]))

\* recv() that hands an error reply back to the caller as a reply
recv_no_error_check(nd, c, env) ==
    Bind(redisGetReply(_context(c), env), LAMBDA r :
    IF r.rc # "REDIS_OK"
    THEN [thrown |-> throw_error(r.ctx, "Failed to get reply"),
          c |-> [c EXCEPT !.ctx = r.ctx], reply |-> NoReply]
    ELSE [thrown |-> NoThrow, c |-> [c EXCEPT !.ctx = r.ctx], reply |-> r.reply])

\* recv() that raises on an error reply and leaves that reply in the reader
recv_error_not_consumed(nd, c, env) ==
    Bind(redisGetReply(_context(c), env), LAMBDA r :
    IF r.rc # "REDIS_OK"
    THEN [thrown |-> throw_error(r.ctx, "Failed to get reply"),
          c |-> [c EXCEPT !.ctx = r.ctx], reply |-> NoReply]
    ELSE IF is_error(r.reply)
    THEN [thrown |-> throw_reply_error(r.reply),
          c |-> [c EXCEPT !.ctx = [r.ctx EXCEPT !.rbuf = <<r.reply>> \o @,
                                                !.nrecv = @ - 1]],
          reply |-> r.reply]
    ELSE [thrown |-> NoThrow, c |-> [c EXCEPT !.ctx = r.ctx], reply |-> r.reply])

\* Connection::recv()
recv(nd, c, env) ==
    Bind(_context(c), LAMBDA ctx :
    IF ~nd /\ ctx = NullContext
    THEN [thrown |-> Abort("assert(ctx != nullptr)"), c |-> c, reply |-> NoReply]
    ELSE Bind(redisGetReply(ctx, env), LAMBDA r :
         IF r.rc # "REDIS_OK"
         THEN [thrown |-> throw_error(r.ctx, "Failed to get reply"),
               c |-> [c EXCEPT !.ctx = r.ctx], reply |-> NoReply]
         ELSE IF ~nd /\ broken([c EXCEPT !.ctx = r.ctx])
         THEN [thrown |-> Abort("assert(!broken())"),
               c |-> [c EXCEPT !.ctx = r.ctx], reply |-> NoReply]
         ELSE IF is_error(r.reply)
         THEN [thrown |-> throw_reply_error(r.reply),
               c |-> [c EXCEPT !.ctx = r.ctx], reply |-> r.reply]
         ELSE [thrown |-> NoThrow, c |-> [c EXCEPT !.ctx = r.ctx],
               reply |-> r.reply]))

\* cmd::auth and cmd::select build the command and send it on the connection
cmd_auth(nd, c, password, env) == send(nd, c, <<"AUTH", password>>, env)
cmd_select(nd, c, db, env) == send(nd, c, <<"SELECT", ToString(db)>>, env)

\* _auth that reads the reply to AUTH and does not look at it
_auth_unchecked(nd, c, env) ==
    IF c.opts.password = ""
    THEN [thrown |-> NoThrow, c |-> c, replies |-> <<>>]
    ELSE Bind(cmd_auth(nd, c, c.opts.password, env), LAMBDA s :
         IF s.thrown # NoThrow
         THEN [thrown |-> s.thrown, c |-> s.c, replies |-> <<>>]
         ELSE Bind(recv(nd, s.c, env), LAMBDA r :
              [thrown |-> r.thrown, c |-> r.c,
               replies |-> IF r.reply = NoReply THEN <<>> ELSE <<r.reply>>]))

\* _auth without the recv(): the reply to AUTH is left on the wire
_auth_no_recv(nd, c, env) ==
    IF c.opts.password = ""
    THEN [thrown |-> NoThrow, c |-> c, replies |-> <<>>]
    ELSE Bind(cmd_auth(nd, c, c.opts.password, env), LAMBDA s :
         [thrown |-> s.thrown, c |-> s.c, replies |-> <<>>])

\* Connection::_auth.  `replies` lists the replies the step read.
_auth(nd, c, env) ==
    IF c.opts.password = ""
    THEN [thrown |-> NoThrow, c |-> c, replies |-> <<>>]
    ELSE Bind(cmd_auth(nd, c, c.opts.password, env), LAMBDA s :
         IF s.thrown # NoThrow
         THEN [thrown |-> s.thrown, c |-> s.c, replies |-> <<>>]
         ELSE Bind(recv(nd, s.c, env), LAMBDA r :
              IF r.thrown # NoThrow
              THEN [thrown |-> r.thrown, c |-> r.c,
                    replies |-> IF r.reply = NoReply THEN <<>> ELSE <<r.reply>>]
              ELSE [thrown |-> expect_ok_status(r.reply), c |-> r.c,
                    replies |-> <<r.reply>>]))

\* _select_db without the test for db 0
_select_db_always(nd, c, env) ==
    Bind(cmd_select(nd, c, c.opts.db, env), LAMBDA s :
         IF s.thrown # NoThrow
         THEN [thrown |-> s.thrown, c |-> s.c, replies |-> <<>>]
         ELSE Bind(recv(nd, s.c, env), LAMBDA r :
              IF r.thrown # NoThrow
              THEN [thrown |-> r.thrown, c |-> r.c,
                    replies |-> IF r.reply = NoReply THEN <<>> ELSE <<r.reply>>]
              ELSE [thrown |-> expect_ok_status(r.reply), c |-> r.c,
                    replies |-> <<r.reply>>]))

\* Connection::_select_db
_select_db(nd, c, env) ==
    IF c.opts.db = 0
    THEN [thrown |-> NoThrow, c |-> c, replies |-> <<>>]
    ELSE Bind(cmd_select(nd, c, c.opts.db, env), LAMBDA s :
         IF s.thrown # NoThrow
         THEN [thrown |-> s.thrown, c |-> s.c, replies |-> <<>>]
         ELSE Bind(recv(nd, s.c, env), LAMBDA r :
              IF r.thrown # NoThrow
              THEN [thrown |-> r.thrown, c |-> r.c,
                    replies |-> IF r.reply = NoReply THEN <<>> ELSE <<r.reply>>]
              ELSE [thrown |-> expect_ok_status(r.reply), c |-> r.c,
                    replies |-> <<r.reply>>]))

\* _set_options that selects the database before it authenticates
_set_options_select_first(nd, c, env) ==
    Bind(_select_db(nd, c, env.select), LAMBDA d :
    IF d.thrown # NoThrow THEN d
    ELSE Bind(_auth(nd, d.c, env.auth), LAMBDA a :
         [a EXCEPT !.replies = d.replies \o @]))

\* Connection::_set_options
_set_options(nd, c, env) ==
    Bind(_auth(nd, c, env.auth), LAMBDA a :
    IF a.thrown # NoThrow THEN a
    ELSE Bind(_select_db(nd, a.c, env.select), LAMBDA d :
         [d EXCEPT !.replies = a.replies \o @]))

\* swap that copies the right-hand side into the left and leaves the right
swap_copy(lhs, rhs) ==
    [lhs |-> [lhs EXCEPT !.ctx = rhs.ctx, !.last_active = rhs.last_active,
                         !.opts = rhs.opts],
     rhs |-> rhs]

\* swap without the exchange of _last_active
swap_partial(lhs, rhs) ==
    [lhs |-> [lhs EXCEPT !.ctx = rhs.ctx, !.opts = rhs.opts],
     rhs |-> [rhs EXCEPT !.ctx = lhs.ctx, !.opts = lhs.opts]]

\* swap that exchanges the timestamps and the options and not the contexts
swap_keep_ctx(lhs, rhs) ==
    [lhs |-> [lhs EXCEPT !.last_active = rhs.last_active, !.opts = rhs.opts],
     rhs |-> [rhs EXCEPT !.last_active = lhs.last_active, !.opts = lhs.opts]]

\* void swap(Connection &lhs, Connection &rhs) noexcept
swap(lhs, rhs) ==
    [lhs |-> [lhs EXCEPT !.ctx = rhs.ctx, !.last_active = rhs.last_active,
                         !.opts = rhs.opts],
     rhs |-> [rhs EXCEPT !.ctx = lhs.ctx, !.last_active = lhs.last_active,
                         !.opts = lhs.opts]]

\* no Connection object (a constructor that raised has produced none)
NoObj == [ctx |-> NullContext, last_active |-> 0, opts |-> NoOptions]

\* the outcome of a constructor that ends before any setup command: `t` is
\* raised (or the process aborted) and `ctx` is what became of the context
CtorEnds(t, ctx, calls) ==
    [thrown |-> t, ctx |-> ctx, c |-> NoObj, calls |-> calls,
     log |-> <<>>, replies |-> <<>>]

\* the constructor without the broken() check after connect
Connection_ctor_unchecked(nd, o, now, env) ==
    Bind(Connector_connect(nd, o, env), LAMBDA k :
    IF k.thrown # NoThrow
    THEN CtorEnds(k.thrown, k.ctx, k.calls)
    ELSE IF ~nd /\ ~(k.ctx = NullContext)
    THEN CtorEnds(Abort("assert(!_ctx)"), k.ctx, k.calls)
    ELSE Bind(_set_options(nd, [ctx |-> k.ctx, last_active |-> now, opts |-> o], env),
              LAMBDA s :
         IF s.thrown = NoThrow \/ s.thrown.class = "abort"
         THEN [thrown |-> s.thrown, ctx |-> s.c.ctx, c |-> s.c, calls |-> k.calls,
               log |-> s.c.ctx.sent, replies |-> s.replies]
         ELSE [thrown |-> s.thrown, ctx |-> redisFree(s.c.ctx), c |-> NoObj,
               calls |-> k.calls, log |-> s.c.ctx.sent, replies |-> s.replies]))

\* Connection::Connection(const ConnectionOptions &opts).  `now` is what
\* steady_clock::now() returns.  When the body raises, the members already
\* constructed are destroyed, which releases the context; a failed assertion
\* terminates the process with the context still open.  `log` lists the
\* commands the constructor appended to the context, `replies` the replies it
\* read, and `calls` counts the handshake calls.
Connection_ctor(nd, o, now, env) ==
    Bind(Connector_connect(nd, o, env), LAMBDA k :
    IF k.thrown # NoThrow
    THEN CtorEnds(k.thrown, k.ctx, k.calls)
    ELSE IF ~nd /\ ~(k.ctx = NullContext)
    THEN CtorEnds(Abort("assert(!_ctx)"), k.ctx, k.calls)
    ELSE IF broken([ctx |-> k.ctx, last_active |-> now, opts |-> o])
    THEN CtorEnds(throw_error(k.ctx, "Failed to connect to Redis"), redisFree(k.ctx),
                  k.calls)
    ELSE Bind(_set_options(nd, [ctx |-> k.ctx, last_active |-> now, opts |-> o], env),
              LAMBDA s :
         IF s.thrown = NoThrow \/ s.thrown.class = "abort"
         THEN [thrown |-> s.thrown, ctx |-> s.c.ctx, c |-> s.c, calls |-> k.calls,
               log |-> s.c.ctx.sent, replies |-> s.replies]
         ELSE [thrown |-> s.thrown, ctx |-> redisFree(s.c.ctx), c |-> NoObj,
               calls |-> k.calls, log |-> s.c.ctx.sent, replies |-> s.replies]))

----------------------------------------------------------------------------
(* The environment of a construction.  Each setup command (AUTH, SELECT)    *)
(* ends in one of seven ways: the append fails, the write fails, the read   *)
(* fails, the reply is malformed, or the server answers OK, an error or     *)
(* something else.  The choices that cannot matter for an outcome are fixed *)
(* so that each outcome is enumerated once.                                 *)

SetupEnvs ==
    {e \in [ans : ReplyKinds, ok : BOOLEAN, wr : BOOLEAN,
            rd : ReadOutcomes, all : {TRUE}] :
        /\ (~e.ok => e.wr /\ e.rd = "ok" /\ e.ans = "status_ok")
        /\ (~e.wr => e.rd = "ok" /\ e.ans = "status_ok")
        /\ (e.rd # "ok" => e.ans = "status_ok")}

DefaultSetupEnv == [ans |-> "status_ok", ok |-> TRUE, wr |-> TRUE, rd |-> "ok", all |-> TRUE]

\* A step that is not reached has its choice fixed in the same way: nothing
\* is configured on a null context, nothing follows a failed configuration
\* step, no setup command runs on a context that is broken or was released,
\* and SELECT does not run after a failed AUTH.  A read gives up waiting only
\* on a socket whose timeout is armed.  A slow handshake on a call without
\* deadline returns the context a prompt one returns: it is listed once, with
\* the steps that follow it succeeding.
CtorEnvs(o) ==
    {e \in [hs : HandshakeOutcomes,
            st : IF o.socket_timeout > 0 THEN BOOLEAN ELSE {TRUE},
            ka : IF o.keep_alive THEN BOOLEAN ELSE {TRUE},
            auth : IF o.password # "" THEN SetupEnvs ELSE {DefaultSetupEnv},
            select : IF o.db # 0 THEN SetupEnvs ELSE {DefaultSetupEnv}] :
        /\ (e.hs = "null" => e.st /\ e.ka)
        /\ (~e.st => e.ka)
        /\ (e.hs \notin {"connected", "slow"} \/ ~e.st \/ ~e.ka
               \/ (e.hs = "slow" /\ o.connect_timeout > 0) =>
                e.auth = DefaultSetupEnv /\ e.select = DefaultSetupEnv)
        /\ (e.auth # DefaultSetupEnv => e.select = DefaultSetupEnv)
        /\ (e.hs = "slow" /\ o.connect_timeout <= 0 =>
                e.st /\ e.ka /\ e.auth.ans = "status_ok" /\ e.select.ans = "status_ok"
                /\ e.auth.ok /\ e.auth.wr /\ e.auth.rd = "ok"
                /\ e.select.ok /\ e.select.wr /\ e.select.rd = "ok")
        /\ (e.auth.rd = "timeout" \/ e.select.rd = "timeout" =>
                o.socket_timeout > 0 /\ Armed(_to_timeval(o.socket_timeout)))}

\* The environment of a recv() on context `ctx`, each outcome once: no
\* choice is open when redisGetReply returns a buffered reply or fails on the
\* error already set; the write is a choice only with commands to write,
\* the split of the replies only with more than one to read; with no reply
\* to come the read fails or gives up; and a read gives up only on a socket
\* whose timeout is armed.
RecvEnvs(ctx) ==
    {e \in GetReplyEnvs :
        /\ (ctx.rbuf # <<>> \/ ctx.err # "REDIS_OK" =>
                e = [wr |-> TRUE, rd |-> "ok", all |-> TRUE])
        /\ (ctx.obuf = <<>> => e.wr)
        /\ (e.wr /\ Len(ctx.stream) + Len(ctx.obuf) <= 1 => e.all)
        /\ (e.wr /\ ctx.rbuf = <<>> /\ ctx.err = "REDIS_OK"
               /\ Len(ctx.stream) + Len(ctx.obuf) = 0 => e.rd \in {"fail", "timeout"})
        /\ (e.rd = "timeout" => TimeoutArmed(ctx))}

SendEnvs == {e \in [ans : CallerReplyKinds, ok : BOOLEAN] : ~e.ok => e.ans = "other"}

----------------------------------------------------------------------------
(* State *)

\* the Connection object `cn` of the state, with the context it points to
Obj(cn) == [ctx |-> handles[cn.ctx], last_active |-> cn.last_active, opts |-> cn.opts]

\* the Connection of the state that owns handle `id` with the members of `c`
Stored(c, id) ==
    [ctx |-> id, last_active |-> c.last_active, opts |-> c.opts, exists |-> TRUE]

IsBroken(cn) == broken(Obj(cn))

SetupCmds == {"AUTH", "SELECT"}

\* the commands of the caller among those appended to a context
CallerSends(ctx) == Cardinality({i \in DOMAIN ctx.sent : ctx.sent[i][1] \notin SetupCmds})

\* hs: what the handshake of a construction produced; calls: the handshake
\* calls it made; log, replies: the setup commands it sent and the replies it read
NoLast ==
    [op |-> "none", thrown |-> NoThrow, reply |-> NoReply, was_broken |-> FALSE,
     hs |-> "none", calls |-> 0, log |-> <<>>, replies |-> <<>>]

NoSaved == [c |-> NoConn, h |-> NullContext]

CtorLast(op, r, env, wb) ==
    [NoLast EXCEPT !.op = op, !.thrown = r.thrown, !.was_broken = wb,
                   !.hs = env.hs, !.calls = r.calls, !.log = r.log,
                   !.replies = r.replies]

Init ==
    /\ ndebug \in BOOLEAN
    /\ opts \in OptionsSet
    /\ handles = <<>>
    /\ conn = NoConn
    /\ tmp = NoConn
    /\ pc = "idle"
    /\ clock = 0
    /\ nhandshake = 0
    /\ saved = NoSaved
    /\ delivered = 0
    /\ last = NoLast
    /\ duration = 0
    /\ timeval = NoTimeval

\* Connection connection(opts) by the caller
Construct ==
    /\ pc = "idle"
    /\ ~conn.exists
    /\ nhandshake < MaxHandshakes
    /\ \E env \in CtorEnvs(opts) :
        \E r \in {Connection_ctor(ndebug, opts, clock + 1, env)} :
            /\ handles' = IF r.ctx = NullContext THEN handles
                          ELSE Append(handles, r.ctx)
            /\ conn' = IF r.thrown = NoThrow THEN Stored(r.c, Len(handles) + 1)
                       ELSE conn
            /\ pc' = IF r.thrown.class = "abort" THEN "aborted" ELSE "idle"
            /\ clock' = IF r.ctx = NullContext THEN clock ELSE clock + 1
            /\ nhandshake' = nhandshake + r.calls
            /\ last' = CtorLast("construct", r, env, FALSE)
    /\ saved' = NoSaved
    /\ delivered' = 0
    /\ UNCHANGED <<duration, timeval, ndebug, opts, tmp>>

\* reconnect(), line 155: Connection connection(_opts);
ReconnectConstruct ==
    /\ pc = "idle"
    /\ conn.exists
    /\ nhandshake < MaxHandshakes
    /\ \E env \in CtorEnvs(conn.opts) :
        \E r \in {Connection_ctor(ndebug, conn.opts, clock + 1, env)} :
            /\ handles' = IF r.ctx = NullContext THEN handles
                          ELSE Append(handles, r.ctx)
            /\ tmp' = IF r.thrown = NoThrow THEN Stored(r.c, Len(handles) + 1)
                      ELSE tmp
            /\ pc' = CASE r.thrown.class = "abort" -> "aborted"
                       [] r.thrown = NoThrow -> "reconnect_swap"
                       [] OTHER -> "idle"
            /\ clock' = IF r.ctx = NullContext THEN clock ELSE clock + 1
            /\ nhandshake' = nhandshake + r.calls
            /\ last' = CtorLast("reconnect", r, env, IsBroken(conn))
    /\ saved' = [c |-> conn, h |-> handles[conn.ctx]]
    /\ UNCHANGED <<duration, timeval, ndebug, opts, conn, delivered>>

\* reconnect(), line 157: swap(*this, connection);
ReconnectSwap ==
    /\ pc = "reconnect_swap"
    /\ \E s \in {swap(conn, tmp)} :
           /\ conn' = s.lhs
           /\ tmp' = s.rhs
    /\ pc' = "reconnect_exit"
    /\ delivered' = 0
    /\ UNCHANGED <<duration, timeval, ndebug, opts, handles, clock, nhandshake, saved, last>>

\* reconnect(), line 158: the local connection is destroyed and the call returns
ReconnectReturn ==
    /\ pc = "reconnect_exit"
    /\ handles' = [handles EXCEPT ![tmp.ctx] = redisFree(@)]
    /\ tmp' = NoConn
    /\ pc' = "idle"
    /\ UNCHANGED <<duration, timeval, ndebug, opts, conn, clock, nhandshake, saved, delivered, last>>

\* connection.send(...) by the caller, through either overload
Send ==
    /\ pc = "idle"
    /\ conn.exists
    /\ CallerSends(handles[conn.ctx]) < MaxSends
    /\ \E cmd \in CallerCmds, env \in SendEnvs, overload \in {"argv", "CmdArgs"} :
        \E r \in {IF overload = "argv" THEN send(ndebug, Obj(conn), cmd, env)
                   ELSE send_CmdArgs(ndebug, Obj(conn), cmd, env)} :
            /\ handles' = [handles EXCEPT ![conn.ctx] = r.c.ctx]
            /\ conn' = Stored(r.c, conn.ctx)
            /\ pc' = IF r.thrown.class = "abort" THEN "aborted" ELSE "idle"
            /\ last' = [NoLast EXCEPT !.op = "send", !.thrown = r.thrown,
                                      !.was_broken = IsBroken(conn)]
    /\ saved' = NoSaved
    /\ UNCHANGED <<duration, timeval, ndebug, opts, tmp, clock, nhandshake, delivered>>

\* connection.recv() by the caller
Recv ==
    /\ pc = "idle"
    /\ conn.exists
    /\ \E env \in RecvEnvs(handles[conn.ctx]) :
        /\ \E r \in {recv(ndebug, Obj(conn), env)} :
               /\ handles' = [handles EXCEPT ![conn.ctx] = r.c.ctx]
               /\ conn' = Stored(r.c, conn.ctx)
               /\ pc' = IF r.thrown.class = "abort" THEN "aborted" ELSE "idle"
               /\ last' = [NoLast EXCEPT !.op = "recv", !.thrown = r.thrown,
                                         !.reply = r.reply,
                                         !.was_broken = IsBroken(conn)]
               /\ delivered' = IF r.reply = NoReply THEN delivered ELSE delivered + 1
    /\ saved' = NoSaved
    /\ UNCHANGED <<duration, timeval, ndebug, opts, tmp, clock, nhandshake>>

\* connection.broken() by the caller
Broken ==
    /\ pc = "idle"
    /\ conn.exists
    /\ last' = [NoLast EXCEPT !.op = "broken", !.was_broken = broken(Obj(conn))]
    /\ saved' = NoSaved
    /\ UNCHANGED <<duration, timeval, ndebug, opts, handles, conn, tmp, pc, clock, nhandshake, delivered>>

\* the caller's Connection goes out of scope: ContextUPtr releases the context
Destroy ==
    /\ pc = "idle"
    /\ conn.exists
    /\ handles' = [handles EXCEPT ![conn.ctx] = redisFree(@)]
    /\ conn' = NoConn
    /\ last' = [NoLast EXCEPT !.op = "destroy", !.was_broken = IsBroken(conn)]
    /\ saved' = NoSaved
    /\ delivered' = 0
    /\ UNCHANGED <<duration, timeval, ndebug, opts, tmp, pc, clock, nhandshake>>

Next ==
    \/ Construct
    \/ ReconnectConstruct
    \/ ReconnectSwap
    \/ ReconnectReturn
    \/ Send
    \/ Recv
    \/ Broken
    \/ Destroy

Spec == Init /\ [][Next]_vars

----------------------------------------------------------------------------
(* _to_timeval on its own: the conversion applied to positive durations     *)
(* (both callers pass it a timeout they found to be > 0, lines 86-88,       *)
(* 96-98, 106-110), with whole seconds, whole microseconds and a nanosecond *)
(* remainder each at the ends and in the middle of its range.               *)

SecondSamples == {0, 1}
MicroSamples == {0, 1, 2, 500000, MicrosPerSec - 2, MicrosPerSec - 1}
NanoSamples == {0, 1, 500, NanosPerMicro - 2, NanosPerMicro - 1}

\* (all below 2^31 nanoseconds)
DurationSamples ==
    {s * NanosPerSec + u * NanosPerMicro + n :
        s \in SecondSamples, u \in MicroSamples, n \in NanoSamples} \ {0}

InitTimeval ==
    /\ ndebug = TRUE
    /\ opts = [NoOptions EXCEPT !.type = "TCP"]
    /\ handles = <<>>
    /\ conn = NoConn
    /\ tmp = NoConn
    /\ pc = "idle"
    /\ clock = 0
    /\ nhandshake = 0
    /\ saved = NoSaved
    /\ delivered = 0
    /\ last = NoLast
    /\ duration \in DurationSamples
    /\ timeval = NoTimeval

\* the call _to_timeval(duration)
ToTimeval ==
    /\ timeval = NoTimeval
    /\ timeval' = _to_timeval(duration)
    /\ UNCHANGED <<duration, ndebug, opts, handles, conn, tmp, pc, clock, nhandshake,
                   saved, delivered, last>>

\* the next duration to convert
NextDuration ==
    /\ timeval # NoTimeval
    /\ duration' \in DurationSamples
    /\ timeval' = NoTimeval
    /\ UNCHANGED <<ndebug, opts, handles, conn, tmp, pc, clock, nhandshake,
                   saved, delivered, last>>

NextTimeval ==
    \/ ToTimeval
    \/ NextDuration

SpecTimeval == InitTimeval /\ [][NextTimeval]_vars

----------------------------------------------------------------------------
(* Properties *)

\* the setup commands a construction with options `o` sends, in order
ExpectedSetup(o) ==
    (IF o.password # "" THEN << <<"AUTH", o.password>> >> ELSE <<>>)
    \o (IF o.db # 0 THEN << <<"SELECT", ToString(o.db)>> >> ELSE <<>>)

\* the context the caller's Connection owns
Ctx == handles[conn.ctx]

\* C1: when reconnect() fails while building the replacement Connection, the
\* error is raised to the caller and the Connection keeps the handle (and the
\* handle its state), the timestamp and the options it had; and at no point of
\* any reconnect() has the Connection the new handle with the old timestamp or
\* the reverse: the members are replaced together or not at all.
C1_FailedReconnectLeavesConnectionUnchanged ==
    last.op = "reconnect" =>
        /\ last.thrown # NoThrow =>
              /\ Raised(last.thrown)
              /\ pc = "idle"
              /\ conn = saved.c
              /\ Ctx = saved.h
              /\ tmp = NoConn
        /\ pc = "reconnect_swap" => conn = saved.c
        /\ (conn.ctx = saved.c.ctx) <=> (conn.last_active = saved.c.last_active)
        /\ conn.opts = saved.c.opts

\* a reconnect() whose AUTH or SELECT was answered with an error has failed
C1_Witness ==
    /\ last.op = "reconnect"
    /\ last.thrown.class = "ReplyError"
    /\ pc = "idle"
    /\ conn.exists

\* C2: when reconnect() returns without raising, the Connection holds the
\* handle the Connector produced in this call, which is not the one held
\* before, is open and not broken; the setup commands of the options have
\* been sent on it and their replies read; and the handle held before has
\* been released.
C2_ReconnectInstallsFreshHandle ==
    last.op = "reconnect" /\ pc = "idle" /\ last.thrown = NoThrow =>
        /\ conn.exists
        /\ conn.ctx = Len(handles)
        /\ conn.ctx # saved.c.ctx
        /\ Ctx.open
        /\ ~IsBroken(conn)
        /\ Ctx.sent = ExpectedSetup(conn.opts)
        /\ Ctx.nrecv = Len(Ctx.sent)
        /\ Ctx.obuf = <<>> /\ Ctx.stream = <<>> /\ Ctx.rbuf = <<>>
        /\ ~handles[saved.c.ctx].open
        /\ handles[saved.c.ctx].frees = 1
        /\ tmp = NoConn

\* a reconnect() of a broken Connection with a password and a db has returned
C2_Witness ==
    /\ last.op = "reconnect"
    /\ pc = "idle"
    /\ last.thrown = NoThrow
    /\ last.was_broken
    /\ Len(last.log) = 2

\* C3: replies are delivered in send order: the k-th recv() of the caller that
\* gets a reply on a handle (returned, or raised as ReplyError) gets the reply
\* to the k-th command the caller sent on it, whatever was pipelined.
C3_RepliesInSendOrder ==
    last.op = "recv" /\ last.reply # NoReply =>
        LET i == Len(ExpectedSetup(conn.opts)) + delivered
        IN  /\ delivered >= 1
            /\ i <= Len(Ctx.sent)
            /\ last.reply.seq = i
            /\ last.reply.cmd = Ctx.sent[i]
            /\ last.reply.cmd \in CallerCmds
            /\ Ctx.nrecv = i

\* two commands were sent before the first reply was received, on a
\* connection that had run AUTH
C3_Witness ==
    /\ last.op = "recv"
    /\ last.thrown = NoThrow
    /\ delivered = 1
    /\ CallerSends(Ctx) = 2
    /\ conn.opts.password # ""

\* C4: a recv() on a connection that is not broken and that parses an error
\* reply of the server raises ReplyError and leaves broken() false; a recv()
\* whose transport fails (no reply is parsed) raises ProtocolError with
\* "Failed to get reply" and leaves broken() true.
C4_ReplyErrorKeepsLiveTransportFailureBreaks ==
    last.op = "recv" =>
        /\ last.reply.kind = "error" /\ ~last.was_broken =>
              last.thrown.class = "ReplyError" /\ ~IsBroken(conn)
        /\ last.reply.kind = "error" => last.thrown.class = "ReplyError"
        /\ last.reply = NoReply =>
              /\ last.thrown = [class |-> "ProtocolError", msg |-> "Failed to get reply"]
              /\ IsBroken(conn)
        /\ last.thrown.class = "ProtocolError" => last.reply = NoReply

\* a recv() has raised ReplyError on a connection that is still not broken
C4_Witness ==
    /\ last.op = "recv"
    /\ last.thrown.class = "ReplyError"
    /\ ~last.was_broken
    /\ ~IsBroken(conn)

\* a recv() on a live connection has lost its transport
C4_WitnessTransport ==
    /\ last.op = "recv"
    /\ last.thrown.class = "ProtocolError"
    /\ ~last.was_broken
    /\ IsBroken(conn)

\* the construction of `last` was answered `kind` to its AUTH
AuthAnswered(kind) ==
    /\ last.op \in {"construct", "reconnect"}
    /\ last.log # <<>>
    /\ last.log[1][1] = "AUTH"
    /\ last.replies # <<>>
    /\ last.replies[1].kind = kind

\* C5: a construction with a password whose AUTH is answered by anything but
\* the status OK raises an error, and no Connection comes out of it: the
\* caller has none after a failed construction, reconnect() ends with the
\* Connection it had, and SELECT is not sent.
C5_RejectedAuthFailsConstruction ==
    \A kind \in ReplyKinds \ {"status_ok"} :
        AuthAnswered(kind) =>
            /\ Raised(last.thrown)
            /\ pc = "idle"
            /\ tmp = NoConn
            /\ last.op = "construct" => ~conn.exists
            /\ last.op = "reconnect" => conn = saved.c
            /\ Len(last.log) = 1
            /\ ~handles[Len(handles)].open

\* a construction has had its AUTH answered with an error reply
C5_Witness ==
    /\ AuthAnswered("error")
    /\ last.op = "construct"
    /\ last.thrown.class = "ReplyError"

\* C6: a Connection constructed with db d # 0 has SELECT d on its handle before
\* every command of the caller, answered by the status OK; a construction with
\* db 0 sends no SELECT, whether it succeeds or fails.
C6_SelectBeforeCallerCommands ==
    LET n == Len(ExpectedSetup(opts))
        select == <<"SELECT", ToString(opts.db)>>
    IN  /\ conn.exists /\ pc = "idle" =>
              /\ Len(Ctx.sent) >= n
              /\ SubSeq(Ctx.sent, 1, n) = ExpectedSetup(opts)
              /\ \A i \in (n + 1)..Len(Ctx.sent) : Ctx.sent[i] \in CallerCmds
              /\ Ctx.nrecv >= n
              /\ opts.db # 0 => Ctx.sent[n] = select
              /\ opts.db = 0 => \A i \in DOMAIN Ctx.sent : Ctx.sent[i][1] # "SELECT"
        /\ last.op \in {"construct", "reconnect"} =>
              /\ opts.db = 0 => \A i \in DOMAIN last.log : last.log[i][1] # "SELECT"
              /\ opts.db # 0 /\ last.thrown = NoThrow =>
                    /\ last.log = ExpectedSetup(opts)
                    /\ Len(last.replies) = n
                    /\ last.replies[n] = [seq |-> n, cmd |-> select, kind |-> "status_ok"]

\* the caller has sent a command on a Connection constructed with db 5
C6_Witness ==
    /\ conn.exists
    /\ pc = "idle"
    /\ opts.db = 5
    /\ last.op = "send"
    /\ last.thrown = NoThrow
    /\ CallerSends(Ctx) >= 1

\* the Connection objects that exist
Connections == {c \in {conn, tmp} : c.exists}

\* C7: every Connection that exists owns one handle, which is a context some
\* handshake produced and that has not been released, and no two Connections
\* own the same handle; this holds inside reconnect() too, before and after
\* the swap.
C7_ExclusiveHandleOwnership ==
    /\ \A c \in Connections :
          /\ c.ctx # NullCtx
          /\ c.ctx \in DOMAIN handles
          /\ handles[c.ctx].open
          /\ handles[c.ctx].frees = 0
    /\ conn.exists /\ tmp.exists => conn.ctx # tmp.ctx
    /\ tmp.exists <=> pc \in {"reconnect_swap", "reconnect_exit"}
    /\ tmp.exists => conn.exists

\* inside reconnect(), after the swap: the temporary owns the old handle
C7_Witness ==
    /\ pc = "reconnect_exit"
    /\ conn.exists
    /\ tmp.exists
    /\ tmp.ctx = saved.c.ctx
    /\ conn.ctx = Len(handles)

\* C8 (as claimed): whenever the handshake of a construction produces a
\* context that is not null and has its error set, the construction raises the
\* connection error "Failed to connect to Redis", whatever the options, and
\* sends no setup command.
C8_BrokenHandleRaisesConnectionError ==
    /\ last.op \in {"construct", "reconnect"}
    /\ last.hs = "refused"
    /\ last.thrown.class # "abort"
    => /\ last.thrown = [class |-> "ConnectionError", msg |-> "Failed to connect to Redis"]
       /\ last.log = <<>>

\* C9 (as claimed): whenever send() returns without raising, broken() is
\* false, in whatever state the connection was when send() was called.
C9_SendReturnsNotBroken ==
    last.op = "send" /\ last.thrown = NoThrow => ~IsBroken(conn)

\* one step of the caller, for C10
C10_Step ==
    /\ conn.exists /\ conn'.exists /\ IsBroken(conn) /\ ~IsBroken(conn)' =>
          /\ pc = "reconnect_swap"
          /\ last.op = "reconnect"
          /\ last.thrown = NoThrow
    /\ last'.op \in {"send", "recv", "broken"} =>
          /\ conn'.ctx = conn.ctx
          /\ nhandshake' = nhandshake
          /\ Len(handles') = Len(handles)
          /\ IsBroken(conn) => IsBroken(conn)'
    /\ pc = "idle" /\ last'.op \in {"construct", "reconnect"} =>
          /\ nhandshake' = nhandshake + 1
          /\ Len(handles') <= Len(handles) + 1
    /\ pc # "idle" => nhandshake' = nhandshake /\ handles' \in {handles} \cup
                          {[handles EXCEPT ![i] = redisFree(@)] : i \in DOMAIN handles}

\* C10: nothing reconnects on its own.  A send(), recv() or broken() call
\* makes no handshake, keeps the handle, and leaves a broken connection
\* broken; a broken Connection becomes live only at the swap of a reconnect()
\* whose replacement was built; and every construction or reconnect() makes
\* exactly one handshake call.
C10_NoAutomaticRetry == [][C10_Step]_vars

\* a send() and a recv() on a broken connection have left it broken
C10_Witness ==
    /\ last.op \in {"send", "recv"}
    /\ last.was_broken
    /\ IsBroken(conn)
    /\ nhandshake = 1

\* a broken connection has been made live by reconnect()
C10_WitnessReconnect ==
    /\ last.op = "reconnect"
    /\ last.was_broken
    /\ pc = "idle"
    /\ ~IsBroken(conn)
    /\ nhandshake = 2

\* the errors Connector::connect() raises itself
ConnectorErrors ==
    {"Unkonw connection type", "Failed to allocate memory for connection.",
     "Failed to set socket timeout", "Failed to enable keep alive option"}

\* C11 (as claimed): the two connect failures are distinct.  A null context
\* from the handshake makes Connector::connect() raise "Failed to allocate
\* memory for connection." with nothing configured and nothing sent; a context
\* that is not null and has its error set is returned by the Connector, and
\* the error raised is the connection error of the Connection constructor,
\* never an error of the Connector.
C11_ConnectFailureOutcomesDistinct ==
    last.op \in {"construct", "reconnect"} =>
        /\ last.hs = "null" =>
              /\ last.thrown = Error("Failed to allocate memory for connection.")
              /\ last.log = <<>>
              /\ last.calls = 1
        /\ last.hs = "refused" /\ last.thrown.class # "abort" =>
              /\ last.thrown.msg \notin ConnectorErrors
              /\ last.thrown.class = "ConnectionError"

\* C12 (as claimed): a handle returned by connect() for options with
\* socket_timeout > 0 has that timeout set and in force, so that a recv() to
\* which nothing arrives gives up: it raises ProtocolError and leaves the
\* connection broken; with socket_timeout <= 0 no timeout is set and no
\* recv() ever gives up waiting.
C12_SocketTimeoutLimitsRecv ==
    conn.exists =>
        /\ conn.opts.socket_timeout > 0 =>
              /\ Ctx.timeout = _to_timeval(conn.opts.socket_timeout)
              /\ TimeoutArmed(Ctx)
        /\ conn.opts.socket_timeout <= 0 =>
              /\ Ctx.timeout = NoTimeval
              /\ Ctx.errstr # TimedOut
        /\ last.op = "recv" /\ ~last.was_broken /\ Ctx.errstr = TimedOut =>
              /\ last.thrown = [class |-> "ProtocolError", msg |-> "Failed to get reply"]
              /\ last.reply = NoReply
              /\ IsBroken(conn)

\* the handshake call the options select
ExpectedVia(o) ==
    CASE o.type = "TCP" /\ o.connect_timeout > 0 -> "redisConnectWithTimeout"
      [] o.type = "TCP" /\ o.connect_timeout <= 0 -> "redisConnect"
      [] o.type = "UNIX" /\ o.connect_timeout > 0 -> "redisConnectUnixWithTimeout"
      [] o.type = "UNIX" /\ o.connect_timeout <= 0 -> "redisConnectUnix"

C14_SetupCommandsInOrder ==
    last.op \in {"construct", "reconnect"} =>
        /\ Len(last.log) <= Len(ExpectedSetup(opts))
        /\ last.log = SubSeq(ExpectedSetup(opts), 1, Len(last.log))
        /\ last.thrown = NoThrow =>
              /\ last.log = ExpectedSetup(opts)
              /\ Len(last.replies) = Len(last.log)
        /\ Len(last.replies) \in {Len(last.log) - 1, Len(last.log)}
        /\ \A i \in DOMAIN last.replies :
              /\ last.replies[i].seq = i
              /\ last.replies[i].cmd = last.log[i]
        /\ Len(last.log) = 2 => last.replies[1].kind = "status_ok"
        /\ last.thrown = NoThrow =>
              \A i \in DOMAIN last.replies : last.replies[i].kind = "status_ok"
        /\ opts.password # "" /\ (last.replies = <<>> \/ last.replies[1].kind # "status_ok") =>
              \A i \in DOMAIN last.log : last.log[i][1] # "SELECT"

\* a construction with a password and a db has had its AUTH rejected
C14_Witness ==
    /\ last.op \in {"construct", "reconnect"}
    /\ opts.password # ""
    /\ opts.db # 0
    /\ last.log = << <<"AUTH", opts.password>> >>
    /\ Len(last.replies) = 1
    /\ last.replies[1].kind = "error"
    /\ Raised(last.thrown)

\* a construction with a password and a db has sent both and succeeded
C14_WitnessBoth ==
    /\ last.op = "construct"
    /\ last.thrown = NoThrow
    /\ Len(last.log) = 2
    /\ Len(last.replies) = 2

\* the handshake of the construction of `last` returned a context that is
\* not null and has no error set
HandshakeLive ==
    /\ last.op \in {"construct", "reconnect"}
    /\ \/ last.hs = "connected"
       \/ last.hs = "slow" /\ opts.connect_timeout <= 0

\* C15 (as claimed): when the handshake returns a context that is not null
\* and not broken, no assertion of Connector::connect() or of the Connection
\* constructor fails: the process is not terminated, and when configuration
\* and setup succeed the construction does.
C15_AssertionsHoldOnLiveHandle ==
    HandshakeLive =>
        /\ last.thrown.class # "abort"
        /\ pc # "aborted"

\* the handles some Connection owns
Owned == {c.ctx : c \in Connections}

\* C16 (as claimed): every context a handshake produced is released exactly
\* once.  No context is released twice; a context is open exactly as long as
\* a Connection owns it (none is leaked); and when a construction fails after
\* its handshake produced a context, that context has been released when the
\* failure reaches the caller.
C16_HandlesReleasedExactlyOnce ==
    /\ \A i \in DOMAIN handles :
          /\ handles[i].frees <= 1
          /\ handles[i].open <=> handles[i].frees = 0
          /\ handles[i].open <=> i \in Owned
    /\ last.op \in {"construct", "reconnect"} /\ last.thrown # NoThrow
          /\ last.hs # "null" =>
              /\ ~handles[Len(handles)].open
              /\ handles[Len(handles)].frees = 1

\* the replies a context has yet to deliver, in the order of the commands:
\* those the reader holds, those on the wire, and those the server will give
\* to the commands still in the output buffer
Pending(ctx) ==
    ctx.rbuf \o ctx.stream \o Replies(ctx.obuf, Len(ctx.sent) - Len(ctx.obuf))

\* one step of the caller, for C17
C17_Step ==
    last'.op = "recv" /\ last'.reply # NoReply =>
        /\ conn'.ctx = conn.ctx
        /\ last'.reply = Head(Pending(Ctx))
        /\ Pending(Ctx)' = Tail(Pending(Ctx))
        /\ Ctx'.nrecv = Ctx.nrecv + 1
        /\ Ctx'.sent = Ctx.sent
        /\ last'.reply.seq = Ctx.nrecv + 1
        /\ last'.reply.cmd = Ctx.sent[Ctx.nrecv + 1]
        /\ delivered' = delivered + 1
        /\ (last'.thrown.class = "ReplyError") <=> (last'.reply.kind = "error")
        /\ last'.reply.kind # "error" => last'.thrown = NoThrow

\* C17: a recv() that gets a reply consumes exactly that one reply, whether
\* it returns it or raises it as ReplyError: it is the reply to the next
\* unanswered command, and the replies to the later commands stay pending,
\* in their order, for the later recv() calls.
C17_ErrorReplyConsumesOneReply == [][C17_Step]_vars

\* the first of two pipelined commands was answered with an error, raised by
\* recv(); the reply to the second is still pending
C17_Witness ==
    /\ last.op = "recv"
    /\ last.thrown.class = "ReplyError"
    /\ delivered = 1
    /\ CallerSends(Ctx) = 2
    /\ Len(Pending(Ctx)) = 1
    /\ Pending(Ctx)[1].seq = last.reply.seq + 1

\* one step of the caller, for C18
C18_Step ==
    /\ pc = "reconnect_swap" =>
          /\ conn'.ctx = tmp.ctx
          /\ conn'.ctx # conn.ctx
          /\ tmp'.ctx = conn.ctx
          /\ Pending(Ctx)' = <<>>
          /\ CallerSends(Ctx)' = 0
          /\ Ctx'.nrecv = Len(Ctx'.sent)
          /\ delivered' = 0
    /\ pc = "reconnect_exit" =>
          /\ conn' = conn
          /\ Ctx' = Ctx
          /\ Pending(handles'[tmp.ctx]) = <<>>
          /\ ~handles'[tmp.ctx].open
    /\ last'.op = "recv" /\ last'.reply # NoReply =>
          /\ conn'.ctx = conn.ctx
          /\ last'.reply = Head(Pending(Ctx))
          /\ last'.reply.seq = Len(ExpectedSetup(conn.opts)) + delivered + 1
          /\ last'.reply.cmd \in CallerCmds
    /\ last'.op = "send" /\ last'.thrown = NoThrow =>
          /\ conn'.ctx = conn.ctx
          /\ Len(Pending(Ctx)') = Len(Pending(Ctx)) + 1
          /\ SubSeq(Pending(Ctx)', 1, Len(Pending(Ctx))) = Pending(Ctx)
          /\ Pending(Ctx)'[Len(Pending(Ctx)')].seq = Len(Ctx'.sent)

\* C18: a reconnect() that succeeds leaves the Connection with no outstanding
\* command.  At the swap the Connection takes the handle built in this call,
\* on which no command of the caller was sent and no reply is pending; the
\* handle it had goes to the temporary and is released with whatever replies
\* it had pending; a send() adds the reply to its command at the end of the
\* replies pending on the handle the Connection holds and a recv() gets the
\* head of them, so the first recv() after the first send() that follows the
\* reconnect gets the reply to that send.
C18_ReconnectDropsOutstandingReplies == [][C18_Step]_vars

\* reconnect() has swapped while the reply to a command of the caller was
\* outstanding on the old handle
C18_Witness ==
    /\ pc = "reconnect_exit"
    /\ Pending(handles[tmp.ctx]) # <<>>
    /\ Pending(Ctx) = <<>>
    /\ CallerSends(handles[tmp.ctx]) >= 1

\* the first recv() on the handle installed by a reconnect() has got the
\* reply to the first command sent on it
C18_WitnessRecv ==
    /\ last.op = "recv"
    /\ last.thrown = NoThrow
    /\ delivered = 1
    /\ conn.ctx = 2
    /\ conn.last_active = 2
    /\ handles[1].frees = 1
    /\ last.reply.seq = Len(ExpectedSetup(conn.opts)) + 1

\* one step of the caller, for C19
C19_Step ==
    /\ last'.op \in {"send", "recv", "broken"} =>
          /\ conn'.opts = conn.opts
          /\ conn'.last_active = conn.last_active
    /\ conn.exists /\ conn'.exists /\ conn'.last_active # conn.last_active =>
          /\ pc = "reconnect_swap"
          /\ last.op = "reconnect" /\ last.thrown = NoThrow
          /\ conn'.last_active = tmp.last_active
          /\ conn'.last_active = clock
          /\ conn'.last_active > conn.last_active
    /\ ~conn.exists /\ conn'.exists =>
          /\ last'.op = "construct"
          /\ conn'.last_active = clock'
          /\ clock' = clock + 1
          /\ conn'.opts = opts
    /\ conn.exists /\ conn'.exists => conn'.opts = conn.opts
    /\ last'.op = "reconnect" /\ last'.thrown # NoThrow /\ pc = "idle" =>
          conn' = conn

C20_TimevalDecomposition ==
    timeval # NoTimeval /\ duration > 0 =>
        /\ timeval.tv_sec * MicrosPerSec + timeval.tv_usec = duration \div NanosPerMicro
        /\ 0 <= timeval.tv_usec
        /\ timeval.tv_usec < MicrosPerSec
        /\ timeval.tv_sec = duration \div NanosPerSec
        /\ timeval.tv_sec >= 0

\* a duration of one second, 999999 microseconds and 999 nanoseconds has
\* been converted
C20_Witness ==
    /\ timeval # NoTimeval
    /\ duration = NanosPerSec + (MicrosPerSec - 1) * NanosPerMicro + (NanosPerMicro - 1)
    /\ timeval.tv_sec = 1
    /\ timeval.tv_usec = MicrosPerSec - 1

====
